---- MODULE Spec2Model ----
(***************************************************************************)
(* Model of the custom-field value codec of the trello client binding      *)
(* (custom-fields.go): CustomFieldValue.MarshalJSON / UnmarshalJSON and    *)
(* the two client calls SetCustomFieldByItem / SetCustomField.             *)
(*                                                                         *)
(* Go strings that the code formats or parses are sequences of one-        *)
(* character strings, so that formatting (%d, %f, the time layout) and     *)
(* parsing (Atoi, ParseFloat, ParseInt, time.Parse) are computed character *)
(* by character and a round trip is something the model can refute.        *)
(***************************************************************************)
EXTENDS Integers, Sequences, FiniteSets, TLC

VARIABLES
    input,      \* the codec call to make: [f, x] to encode x, [f, b] to decode b
    holder,     \* v.val of the CustomFieldValue that UnmarshalJSON decodes into
    before,     \* v.val of that holder when the last codec call started
    op,         \* the last call made
    arg,        \* its argument: the wrapped Go value (Marshal), the JSON document (Unmarshal)
    ret,        \* its result: [bytes, err, n]
    source,     \* the Go value whose encoding `arg` is, when Unmarshal decodes Marshal's output
    item,       \* the caller's CustomFieldItem
    passed,     \* the arguments of the last client call, and `sent` when it was made
    sent,       \* the number of HTTP requests issued so far
    request,    \* the last HTTP request issued
    cret        \* the error returned by the last client call

vars == <<input, holder, before, op, arg, ret, source, item, passed, sent, request, cret>>
codecVars == <<input, holder, before, arg, ret, source>>
clientVars == <<item, passed, sent, request, cret>>

----------------------------------------------------------------------------
(* Bounds of the model. *)

\* floats of the model carry at most this many fractional decimal digits
MaxScale == 7
\* longest chain of driver.Valuer wrappers around a value
MaxChain == 2
\* the client issues at most this many requests
MaxRequests == 3

----------------------------------------------------------------------------
(* Characters and decimal numerals. *)

Digits == <<"0", "1", "2", "3", "4", "5", "6", "7", "8", "9">>

DigitChar(d) == Digits[d + 1]

IsDigit(c) == \E d \in 0..9 : Digits[d + 1] = c

DigitVal(c) == CHOOSE d \in 0..9 : Digits[d + 1] = c

IsDigitAt(s, i) == i >= 1 /\ i <= Len(s) /\ IsDigit(s[i])

AllDigits(s) == \A i \in 1..Len(s) : IsDigit(s[i])

RECURSIVE Pow10(_)
Pow10(n) == IF n <= 0 THEN 1 ELSE 10 * Pow10(n - 1)

Abs(n) == IF n < 0 THEN -n ELSE n

\* decimal digits of a natural number, no leading zeros
RECURSIVE NatDigits(_)
NatDigits(n) ==
    IF n < 10 THEN <<DigitChar(n)>>
    ELSE Append(NatDigits(n \div 10), DigitChar(n % 10))

\* the natural number written with exactly w digits (zero padded; n < 10^w)
RECURSIVE PadDigits(_, _)
PadDigits(n, w) ==
    IF w <= 0 THEN <<>>
    ELSE Append(PadDigits(n \div 10, w - 1), DigitChar(n % 10))

\* the natural number written with at least w digits
PadMin(n, w) == IF n >= Pow10(w) THEN NatDigits(n) ELSE PadDigits(n, w)

\* value of a string of digits
RECURSIVE DigitsVal(_)
DigitsVal(s) ==
    IF s = <<>> THEN 0
    ELSE 10 * DigitsVal(SubSeq(s, 1, Len(s) - 1)) + DigitVal(s[Len(s)])

Drop(s, k) == SubSeq(s, k + 1, Len(s))

----------------------------------------------------------------------------
(* Go values held in an interface{}: the dynamic type is the kind.  A      *)
(* float64 of the model is a decimal num / 10^scale (standing for the      *)
(* float64 nearest to it), NaN or an infinity; a time.Time is its wall     *)
(* clock fields, its nanoseconds and its location.                         *)

Nil == [kind |-> "nil"]
GoString(s) == [kind |-> "string", v |-> s]
GoInt(n) == [kind |-> "int", v |-> n]
GoInt64(n) == [kind |-> "int64", v |-> n]
GoFloat64(f) == [kind |-> "float64", v |-> f]
GoBool(b) == [kind |-> "bool", v |-> b]
GoTime(t) == [kind |-> "time", v |-> t]
GoCfval(c) == [kind |-> "cfval", v |-> c]
\* a driver.Valuer whose Value() returns (inner, nil)
GoValuer(inner) == [kind |-> "valuer", v |-> inner, fails |-> FALSE]
\* a driver.Valuer whose Value() returns (nil, err)
GoFailingValuer == [kind |-> "valuer", v |-> Nil, fails |-> TRUE]
\* values of Go types the type switch has no case for
GoOther(t) == [kind |-> t]

RECURSIVE Normalize(_, _)
Normalize(num, scale) ==
    IF scale > 0 /\ num % 10 = 0 THEN Normalize(num \div 10, scale - 1)
    ELSE [num |-> num, scale |-> scale, cls |-> "finite"]

Finite(num, scale) == Normalize(num, scale)
NaN == [num |-> 0, scale |-> 0, cls |-> "nan"]
PosInf == [num |-> 0, scale |-> 0, cls |-> "+inf"]
NegInf == [num |-> 0, scale |-> 0, cls |-> "-inf"]

\* Go's == on two float64: NaN differs from everything, itself included
FloatEq(f, g) == f.cls # "nan" /\ g.cls # "nan" /\ f = g

----------------------------------------------------------------------------
(* type cfval struct (custom-fields.go:54) and errors. *)

Cfval(text, number, date, checked) ==
    [Text |-> text, Number |-> number, Date |-> date, Checked |-> checked]

NoErr == [e |-> "nil"]
ErrUnsupportedType == [e |-> "unsupported type"]
ErrValuer == [e |-> "valuer"]
ErrJsonSyntax == [e |-> "json: syntax"]
ErrJsonType == [e |-> "json: cannot unmarshal"]
ErrTimeParse == [e |-> "time: parsing"]
ErrNumber(s) == [s |-> s, e |-> "cannot convert to number"]
ErrModelType(t) == [s |-> t, e |-> "unsupported model type"]
ErrHTTP == [e |-> "http"]

----------------------------------------------------------------------------
(* fmt and strconv. *)

\* fmt.Sprintf("%d", n)
FormatInt(n) == IF n < 0 THEN <<"-">> \o NatDigits(-n) ELSE NatDigits(n)

\* digits after the decimal point that %f prints by default
Prec == 6

\* a / unit rounded to the nearest integer, ties to even
RoundHalfEven(a, unit) ==
    LET q == a \div unit
        r == a % unit
    IN  IF 2 * r > unit \/ (2 * r = unit /\ q % 2 = 1) THEN q + 1 ELSE q

\* fmt.Sprintf("%f", f)
FormatFloat(f) ==
    CASE f.cls = "nan" -> <<"N", "a", "N">>
      [] f.cls = "+inf" -> <<"+", "I", "n", "f">>
      [] f.cls = "-inf" -> <<"-", "I", "n", "f">>
      [] OTHER ->
            LET a == Abs(f.num)
                scaled == IF f.scale <= Prec THEN a * Pow10(Prec - f.scale)
                          ELSE RoundHalfEven(a, Pow10(f.scale - Prec))
            IN  (IF f.num < 0 THEN <<"-">> ELSE <<>>)
                    \o NatDigits(scaled \div Pow10(Prec))
                    \o <<".">>
                    \o PadDigits(scaled % Pow10(Prec), Prec)

SignLen(s) == IF s # <<>> /\ s[1] \in {"+", "-"} THEN 1 ELSE 0

\* length of the run of digits of s that starts at position i
RECURSIVE DigitRun(_, _)
DigitRun(s, i) == IF IsDigitAt(s, i) THEN 1 + DigitRun(s, i + 1) ELSE 0

\* strconv.ParseInt(s, 10, bitSize): an optional sign and decimal digits.
\* The numerals of the model are within the range of every bitSize used.
ParseInt(s, base, bitSize) ==
    LET body == Drop(s, SignLen(s))
    IN  IF base = 10 /\ body # <<>> /\ AllDigits(body)
        THEN [v |-> IF s[1] = "-" THEN -DigitsVal(body) ELSE DigitsVal(body),
              ok |-> TRUE]
        ELSE [v |-> 0, ok |-> FALSE]

\* strconv.Atoi(s): ParseInt(s, 10, 0), the result an int
Atoi(s) == ParseInt(s, 10, 0)

\* strconv.ParseFloat(s, bitSize): [sign] digits [. digits] [e [sign] digits],
\* or NaN, or [sign] Inf; at least one mantissa digit; the whole string is used.
ParseFloat(s, bitSize) ==
    LET k == SignLen(s)
        neg == k = 1 /\ s[1] = "-"
        a == DigitRun(s, k + 1)
        p == k + 1 + a
        hasDot == p <= Len(s) /\ s[p] = "."
        b == IF hasDot THEN DigitRun(s, p + 1) ELSE 0
        q == IF hasDot THEN p + 1 + b ELSE p
        hasExp == q <= Len(s) /\ s[q] \in {"e", "E"}
        ek == IF hasExp THEN SignLen(Drop(s, q)) ELSE 0
        c == IF hasExp THEN DigitRun(s, q + ek + 1) ELSE 0
        r == IF hasExp THEN q + ek + 1 + c ELSE q
        mant == DigitsVal(SubSeq(s, k + 1, p - 1) \o SubSeq(s, p + 1, p + b))
        ex == IF ~hasExp THEN 0
              ELSE IF ek = 1 /\ s[q + 1] = "-" THEN -DigitsVal(SubSeq(s, q + ek + 1, r - 1))
              ELSE DigitsVal(SubSeq(s, q + ek + 1, r - 1))
        num == IF neg THEN -mant ELSE mant
    IN  CASE s = <<"N", "a", "N">> -> [v |-> NaN, ok |-> TRUE]
          [] Drop(s, k) = <<"I", "n", "f">> ->
                [v |-> IF neg THEN NegInf ELSE PosInf, ok |-> TRUE]
          [] a + b > 0 /\ (hasExp => c > 0) /\ r = Len(s) + 1 ->
                [v |-> IF ex >= b THEN Finite(num * Pow10(ex - b), 0)
                       ELSE Finite(num, b - ex),
                 ok |-> TRUE]
          [] OTHER -> [v |-> Finite(0, 0), ok |-> FALSE]

----------------------------------------------------------------------------
(* package time: Format and Parse under the layout timeFmt. *)

\* a location: its name and its offset east of UTC in seconds
UTC == [name |-> "UTC", off |-> 0]
FixedZone(name, off) == [name |-> name, off |-> off]
Date(Y, Mo, D, h, mi, sec, ns, loc) ==
    [Y |-> Y, Mo |-> Mo, D |-> D, h |-> h, mi |-> mi, sec |-> sec, ns |-> ns, loc |-> loc]
\* time.Time{}
ZeroTime == Date(1, 1, 1, 0, 0, 0, 0, UTC)

IsLeap(Y) == Y % 4 = 0 /\ (Y % 100 # 0 \/ Y % 400 = 0)

DaysIn(Mo, Y) ==
    IF Mo = 2 THEN (IF IsLeap(Y) THEN 29 ELSE 28)
    ELSE IF Mo \in {4, 6, 9, 11} THEN 30 ELSE 31

\* the layout with the hour of the 12-hour clock ("03"): a mutant of FormatTime
FormatTimeHour12(t) ==
    PadMin(t.Y, 4) \o <<"-">> \o PadDigits(t.Mo, 2) \o <<"-">> \o PadDigits(t.D, 2)
        \o <<"T">> \o PadDigits(IF t.h % 12 = 0 THEN 12 ELSE t.h % 12, 2)
        \o <<":">> \o PadDigits(t.mi, 2) \o <<":">> \o PadDigits(t.sec, 2) \o <<"Z">>

\* t.Format("2006-01-02T15:04:05Z"): the wall clock of t in its own location,
\* to the second, followed by the letter Z (the layout's Z is literal text)
FormatTime(t) ==
    PadMin(t.Y, 4) \o <<"-">> \o PadDigits(t.Mo, 2) \o <<"-">> \o PadDigits(t.D, 2)
        \o <<"T">> \o PadDigits(t.h, 2) \o <<":">> \o PadDigits(t.mi, 2)
        \o <<":">> \o PadDigits(t.sec, 2) \o <<"Z">>

\* nanoseconds of a fraction written with the digits d (at most nine)
FracNanos(d) == DigitsVal(d) * Pow10(9 - Len(d))

\* time.Parse("2006-01-02T15:04:05Z", s).  Year: four digits; month, day,
\* minute, second: two digits; hour ("15"): one or two digits; after the
\* seconds a fraction (. or , and digits) is accepted although the layout has
\* none; then the letter Z and nothing more.  Fields out of range fail.
ParseTime(s) ==
    LET hl == IF IsDigitAt(s, 13) THEN 2 ELSE 1
        c == 11 + hl          \* the position before ":" that follows the hour
        f == c + 6            \* the position of the second digit of the seconds
        hasFrac == f + 2 <= Len(s) /\ s[f + 1] \in {".", ","} /\ IsDigitAt(s, f + 2)
        fl == IF hasFrac THEN DigitRun(s, f + 2) ELSE 0
        z == IF hasFrac THEN f + 2 + fl ELSE f + 1
        shape ==
            /\ Len(s) = z
            /\ \A i \in {1, 2, 3, 4, 6, 7, 9, 10, 12} : IsDigitAt(s, i)
            /\ s[5] = "-" /\ s[8] = "-" /\ s[11] = "T"
            /\ s[c + 1] = ":" /\ IsDigitAt(s, c + 2) /\ IsDigitAt(s, c + 3)
            /\ s[c + 4] = ":" /\ IsDigitAt(s, c + 5) /\ IsDigitAt(s, c + 6)
            /\ s[z] = "Z"
        Y == DigitsVal(SubSeq(s, 1, 4))
        Mo == DigitsVal(SubSeq(s, 6, 7))
        D == DigitsVal(SubSeq(s, 9, 10))
        h == DigitsVal(SubSeq(s, 12, 11 + hl))
        mi == DigitsVal(SubSeq(s, c + 2, c + 3))
        sec == DigitsVal(SubSeq(s, c + 5, c + 6))
        nd == IF fl > 9 THEN 9 ELSE fl
        ns == IF hasFrac THEN FracNanos(SubSeq(s, f + 2, f + 1 + nd)) ELSE 0
    IN  IF /\ shape
           /\ Mo \in 1..12 /\ h < 24 /\ mi < 60 /\ sec < 60
           /\ D >= 1 /\ D <= DaysIn(Mo, Y)
        THEN [v |-> Date(Y, Mo, D, h, mi, sec, ns, UTC), ok |-> TRUE]
        ELSE [v |-> ZeroTime, ok |-> FALSE]

\* days from the first of January of year 0 to the day Y-Mo-D
RECURSIVE DaysBefore(_, _)
DaysBefore(Mo, Y) == IF Mo <= 1 THEN 0 ELSE DaysBefore(Mo - 1, Y) + DaysIn(Mo - 1, Y)

LeapsBefore(Y) ==
    IF Y <= 0 THEN 0 ELSE ((Y - 1) \div 4) - ((Y - 1) \div 100) + ((Y - 1) \div 400) + 1

DayNum(Y, Mo, D) == 365 * Y + LeapsBefore(Y) + DaysBefore(Mo, Y) + (D - 1)

\* the instant of t: <<day, second of the day, nanosecond>> in UTC
Instant(t) ==
    LET secs == t.h * 3600 + t.mi * 60 + t.sec - t.loc.off
    IN  <<DayNum(t.Y, t.Mo, t.D) + (secs \div 86400), secs % 86400, t.ns>>

\* t1.Equal(t2): the same instant, whatever the locations
TimeEq(t1, t2) == Instant(t1) = Instant(t2)

----------------------------------------------------------------------------
(* encoding/json, as far as the codec uses it.  A JSON document is its     *)
(* parsed shape; bytes that are no JSON are JInvalid, a nil []byte NoBytes. *)

JString(s) == [s |-> s, j |-> "string"]
JNumber(s) == [s |-> s, j |-> "number"]
JNull == [j |-> "null"]
JInvalid == [j |-> "invalid"]
JObject(m) == [j |-> "object", m |-> m]
NoBytes == [j |-> "nil"]

\* the JSON names of cfval's fields (custom-fields.go:55-58)
CfvalKeys == {"text", "number", "date", "checked"}

Field(c, k) ==
    CASE k = "text" -> c.Text
      [] k = "number" -> c.Number
      [] k = "date" -> c.Date
      [] k = "checked" -> c.Checked

ZeroCfval == Cfval(<<>>, <<>>, <<>>, <<>>)

\* json.Marshal(c) of a cfval: every field is omitempty
JsonMarshalCfval(c) ==
    JObject([k \in {x \in CfvalKeys : Field(c, x) # <<>>} |-> JString(Field(c, k))])

\* json.Unmarshal(b, &cfval{}): the error and the cfval it leaves.  Members
\* other than the four names are ignored; a member that is no string (and not
\* null) is a type error and leaves its field empty; a document that is no
\* object (and not null) is a type error.
JsonUnmarshalCfval(b) ==
    CASE b.j = "object" ->
            LET get(k) == IF k \in DOMAIN b.m /\ b.m[k].j = "string" THEN b.m[k].s ELSE <<>>
                bad == \E k \in DOMAIN b.m \cap CfvalKeys : b.m[k].j \notin {"string", "null"}
            IN  [c |-> Cfval(get("text"), get("number"), get("date"), get("checked")),
                 err |-> IF bad THEN ErrJsonType ELSE NoErr]
      [] b.j = "null" -> [c |-> ZeroCfval, err |-> NoErr]
      [] b.j \in {"string", "number"} -> [c |-> ZeroCfval, err |-> ErrJsonType]
      [] OTHER -> [c |-> ZeroCfval, err |-> ErrJsonSyntax]

----------------------------------------------------------------------------
(* CustomFieldValue.MarshalJSON (custom-fields.go:79-113). *)

Encoded(b) == [err |-> NoErr, bytes |-> b]
Failed(e) == [err |-> e, bytes |-> NoBytes]

\* case string
EncodeString(s) ==
    IF s = <<>> THEN Encoded(JString(<<>>))
    ELSE Encoded(JsonMarshalCfval(Cfval(s, <<>>, <<>>, <<>>)))

\* the number written to the text field: a mutant of EncodeInt
EncodeIntAsText(n) == Encoded(JsonMarshalCfval(Cfval(FormatInt(n), <<>>, <<>>, <<>>)))

\* case int, int64
EncodeInt(n) == Encoded(JsonMarshalCfval(Cfval(<<>>, FormatInt(n), <<>>, <<>>)))

\* case float64
EncodeFloat(f) == Encoded(JsonMarshalCfval(Cfval(<<>>, FormatFloat(f), <<>>, <<>>)))

\* case bool
EncodeBool(b) ==
    IF b THEN Encoded(JsonMarshalCfval(Cfval(<<>>, <<>>, <<>>, <<"t", "r", "u", "e">>)))
    ELSE Encoded(JsonMarshalCfval(Cfval(<<>>, <<>>, <<>>, <<"f", "a", "l", "s", "e">>)))

\* case time.Time
EncodeTime(t) == Encoded(JsonMarshalCfval(Cfval(<<>>, <<>>, FormatTime(t), <<>>)))

\* the cases of the type switch other than driver.Valuer
EncodeSwitch(val) ==
    CASE val.kind = "string" -> EncodeString(val.v)
      [] val.kind \in {"int", "int64"} -> EncodeInt(val.v)
      [] val.kind = "float64" -> EncodeFloat(val.v)
      [] val.kind = "bool" -> EncodeBool(val.v)
      [] val.kind = "time" -> EncodeTime(val.v)
      [] val.kind = "cfval" -> Encoded(JsonMarshalCfval(val.v))
      [] OTHER -> Failed(ErrUnsupportedType)

WithCount(r, n) == [n |-> n, err |-> r.err, bytes |-> r.bytes]

\* the type switch with one resolution only: a mutant of MarshalSwitch
MarshalSwitchOnce(val, n) ==
    IF val.kind = "valuer"
    THEN IF val.fails THEN WithCount(Failed(ErrValuer), n + 1)
         ELSE WithCount(EncodeSwitch(val.v), n + 1)
    ELSE WithCount(EncodeSwitch(val), n)

\* the type switch at label switchVal, entered after n calls of Value()
RECURSIVE MarshalSwitch(_, _)
MarshalSwitch(val, n) ==
    IF val.kind = "valuer"
    THEN IF val.fails THEN WithCount(Failed(ErrValuer), n + 1)
         ELSE MarshalSwitch(val.v, n + 1)
    ELSE WithCount(EncodeSwitch(val), n)

\* NewCustomFieldValue(val) (custom-fields.go:62)
NewCustomFieldValue(val) == [val |-> val]

\* v.MarshalJSON(): the bytes, the error, the number of resolutions made
MarshalJSON(v) == MarshalSwitch(v.val, 0)

----------------------------------------------------------------------------
(* CustomFieldValue.UnmarshalJSON (custom-fields.go:116-150). *)

\* number tried as a float first: a mutant of DecodeNumber
DecodeNumberFloatFirst(s) ==
    IF ParseFloat(s, 64).ok THEN [err |-> NoErr, val |-> GoFloat64(ParseFloat(s, 64).v)]
    ELSE IF Atoi(s).ok THEN [err |-> NoErr, val |-> GoInt(Atoi(s).v)]
    ELSE [err |-> ErrNumber(s), val |-> GoInt64(0)]

\* lines 135-147: Atoi, ParseFloat 64, ParseFloat 32, ParseInt 64; every
\* attempt assigns v.val, the failed ones their zero result
DecodeNumber(s) ==
    IF Atoi(s).ok THEN [err |-> NoErr, val |-> GoInt(Atoi(s).v)]
    ELSE IF ParseFloat(s, 64).ok THEN [err |-> NoErr, val |-> GoFloat64(ParseFloat(s, 64).v)]
    ELSE IF ParseFloat(s, 32).ok THEN [err |-> NoErr, val |-> GoFloat64(ParseFloat(s, 32).v)]
    ELSE IF ParseInt(s, 10, 64).ok THEN [err |-> NoErr, val |-> GoInt64(ParseInt(s, 10, 64).v)]
    ELSE [err |-> ErrNumber(s), val |-> GoInt64(ParseInt(s, 10, 64).v)]

\* line 132
DecodeChecked(s) == GoBool(s = <<"t", "r", "u", "e">>)

\* the decoder with else-if between the fields: a mutant of UnmarshalJSON
UnmarshalJSONFirstMatch(val, b) ==
    LET u == JsonUnmarshalCfval(b)
        c == u.c
    IN  IF u.err # NoErr THEN [err |-> u.err, val |-> val]
        ELSE IF c.Text # <<>> THEN [err |-> NoErr, val |-> GoString(c.Text)]
        ELSE IF c.Date # <<>> THEN
            [err |-> IF ParseTime(c.Date).ok THEN NoErr ELSE ErrTimeParse,
             val |-> GoTime(ParseTime(c.Date).v)]
        ELSE IF c.Checked # <<>> THEN [err |-> NoErr, val |-> DecodeChecked(c.Checked)]
        ELSE IF c.Number # <<>> THEN DecodeNumber(c.Number)
        ELSE [err |-> NoErr, val |-> val]

\* the decoder that goes on after a date that does not parse: a mutant
UnmarshalJSONNoAbort(val, b) ==
    LET u == JsonUnmarshalCfval(b)
        c == u.c
        v1 == IF c.Text # <<>> THEN GoString(c.Text) ELSE val
        v2 == IF c.Date # <<>> THEN GoTime(ParseTime(c.Date).v) ELSE v1
        e2 == IF c.Date # <<>> /\ ~ParseTime(c.Date).ok THEN ErrTimeParse ELSE NoErr
        v3 == IF c.Checked # <<>> THEN DecodeChecked(c.Checked) ELSE v2
    IN  IF u.err # NoErr THEN [err |-> u.err, val |-> val]
        ELSE IF c.Number # <<>> THEN DecodeNumber(c.Number)
        ELSE [err |-> e2, val |-> v3]

\* v.UnmarshalJSON(b) on a holder whose v.val is val: the v.val it leaves and
\* the error it returns
UnmarshalJSON(val, b) ==
    LET u == JsonUnmarshalCfval(b)
        c == u.c
        \* lines 122-124
        v1 == IF c.Text # <<>> THEN GoString(c.Text) ELSE val
        \* lines 125-130: v.val is assigned whether or not the date parses
        v2 == IF c.Date # <<>> THEN GoTime(ParseTime(c.Date).v) ELSE v1
        \* lines 131-133
        v3 == IF c.Checked # <<>> THEN DecodeChecked(c.Checked) ELSE v2
    IN  IF u.err # NoErr THEN [err |-> u.err, val |-> val]
        ELSE IF c.Date # <<>> /\ ~ParseTime(c.Date).ok THEN [err |-> ErrTimeParse, val |-> v2]
        ELSE IF c.Number # <<>> THEN DecodeNumber(c.Number)
        ELSE [err |-> NoErr, val |-> v3]

----------------------------------------------------------------------------
(* The client calls (custom-fields.go:25-47). *)

CustomFieldItem(id, value, idValue, idCustomField, idModel, idModelType) ==
    [ID |-> id, Value |-> value, IDValue |-> idValue,
     IDCustomField |-> idCustomField, IDModel |-> idModel, IDModelType |-> idModelType]

S_card == <<"c", "a", "r", "d">>

\* the guard that lets every model type through: a mutant of RejectsModelType
RejectsNoModelType(t) == FALSE

\* line 26
RejectsModelType(t) == t # <<>> /\ t # S_card

\* fmt.Sprintf("cards/%s/customField/%s/item", cardID, customFieldID)
ItemPath(cardID, customFieldID) ==
    <<"c", "a", "r", "d", "s", "/">> \o cardID
        \o <<"/", "c", "u", "s", "t", "o", "m", "F", "i", "e", "l", "d", "/">>
        \o customFieldID \o <<"/", "i", "t", "e", "m">>

\* the body that is the caller's item itself: a mutant of ByItemBody
ByItemBodyWhole(cfi) == cfi

\* lines 32-34: CustomFieldItem{Value: cfi.Value}
ByItemBody(cfi) == CustomFieldItem(<<>>, cfi.Value, <<>>, <<>>, <<>>, <<>>)

\* lines 42-44: CustomFieldItem{Value: NewCustomFieldValue(value)}
SetCustomFieldBody(value) ==
    CustomFieldItem(<<>>, NewCustomFieldValue(value), <<>>, <<>>, <<>>, <<>>)

\* json.Marshal of a CustomFieldItem (lines 16-23): the string fields are
\* omitempty; Value is a struct, which omitempty never omits, encoded by its
\* MarshalJSON, whose error fails the whole encoding
ItemKeys == {"id", "idValue", "idCustomField", "idModel", "modelType"}

ItemField(it, k) ==
    CASE k = "id" -> it.ID
      [] k = "idValue" -> it.IDValue
      [] k = "idCustomField" -> it.IDCustomField
      [] k = "idModel" -> it.IDModel
      [] k = "modelType" -> it.IDModelType

JsonMarshalItem(it) ==
    LET r == MarshalJSON(it.Value)
    IN  IF r.err # NoErr THEN Failed(r.err)
        ELSE Encoded(JObject(
                [k \in {"value"} \cup {x \in ItemKeys : ItemField(it, x) # <<>>} |->
                    IF k = "value" THEN r.bytes ELSE JString(ItemField(it, k))]))

\* flattenArguments(extraArgs): the argument maps merged into one, a later
\* map overriding an earlier one
RECURSIVE FlattenArguments(_)
FlattenArguments(extraArgs) ==
    IF extraArgs = <<>> THEN <<>>
    ELSE extraArgs[Len(extraArgs)] @@ FlattenArguments(SubSeq(extraArgs, 1, Len(extraArgs) - 1))

\* c.PutJSON(path, args, body, nil), up to the response: the body is encoded
\* and, unless that fails, one PUT request is sent
PutJSON(path, args, body) ==
    LET e == JsonMarshalItem(body)
    IN  [err |-> e.err,
         send |-> e.err = NoErr,
         req |-> [body |-> e.bytes, path |-> path, args |-> args, method |-> "PUT"]]

NoRequest == [body |-> NoBytes, path |-> <<>>, args |-> <<>>, method |-> "none"]

\* c.SetCustomFieldByItem(cfi, extraArgs...), up to the response
SetCustomFieldByItem(cfi, extraArgs) ==
    IF RejectsModelType(cfi.IDModelType)
    THEN [err |-> ErrModelType(cfi.IDModelType), send |-> FALSE, req |-> NoRequest]
    ELSE PutJSON(ItemPath(cfi.IDModel, cfi.IDCustomField),
                 FlattenArguments(extraArgs), ByItemBody(cfi))

\* c.SetCustomField(cardID, customFieldID, value, extraArgs...), up to the response
SetCustomField(cardID, customFieldID, value, extraArgs) ==
    PutJSON(ItemPath(cardID, customFieldID),
            FlattenArguments(extraArgs), SetCustomFieldBody(value))

----------------------------------------------------------------------------
(* The values and the documents the calls are made with. *)

S_hi == <<"h", "i">>
S_true == <<"t", "r", "u", "e">>
S_false == <<"f", "a", "l", "s", "e">>

IntInputs == {-7, 0, 42}

FloatInputs ==
    {Finite(n, sc) : n \in {-15, 0, 314}, sc \in 0..MaxScale} \cup {NaN, PosInf, NegInf}

CEST == FixedZone("CEST", 7200)

TimeInputs ==
    {Date(2021, 6, 1, 10, 0, 0, 0, UTC),
     Date(2021, 12, 31, 23, 59, 59, 0, UTC),
     Date(2020, 2, 29, 0, 0, 0, 0, UTC),
     Date(10000, 1, 1, 0, 0, 0, 0, UTC),
     Date(2021, 6, 1, 10, 0, 0, 500000000, UTC),
     Date(2021, 6, 1, 10, 0, 0, 0, CEST)}

CfvalInputs ==
    {ZeroCfval,
     Cfval(S_hi, <<>>, <<>>, <<>>),
     Cfval(S_hi, <<"4", "2">>, <<>>, <<>>)}

\* values of types MarshalJSON has no case for
OtherInputs ==
    {Nil, GoOther("struct"), GoOther("float32"), GoOther("int32"), GoOther("[]byte")}

Primitives ==
    {GoString(s) : s \in {<<>>, S_hi}}
        \cup {GoInt(n) : n \in IntInputs}
        \cup {GoInt64(n) : n \in IntInputs}
        \cup {GoFloat64(f) : f \in FloatInputs}
        \cup {GoBool(b) : b \in BOOLEAN}
        \cup {GoTime(t) : t \in TimeInputs}
        \cup {GoCfval(c) : c \in CfvalInputs}
        \cup OtherInputs

\* v wrapped in n driver.Valuer
RECURSIVE Wrap(_, _)
Wrap(v, n) == IF n = 0 THEN v ELSE GoValuer(Wrap(v, n - 1))

ChainEnds ==
    {GoString(S_hi), GoString(<<>>), GoInt64(42), GoOther("struct"), GoFailingValuer}

Chains == {Wrap(v, n) : v \in ChainEnds, n \in 1..MaxChain} \cup {GoFailingValuer}

MarshalInputs == Primitives \cup Chains

TextInputs == {<<>>, S_hi}

DateInputs ==
    {<<>>,
     <<"2", "0", "2", "1", "-", "0", "6", "-", "0", "1", "T", "1", "0", ":", "0", "0", ":", "0", "0", "Z">>,
     <<"2", "0", "2", "1", "-", "0", "6", "-", "0", "1", "T", "1", "0", ":", "0", "0", ":", "0", "0", ".", "5", "Z">>,
     <<"2", "0", "2", "1", "-", "1", "3", "-", "0", "1", "T", "1", "0", ":", "0", "0", ":", "0", "0", "Z">>,
     <<"n", "o", "t", "-", "a", "-", "d", "a", "t", "e">>}

CheckedInputs == {<<>>, S_true, S_false, <<"y", "e", "s">>}

NumberInputs ==
    {<<>>, <<"4", "2">>, <<"-", "7">>, <<"3", ".", "1", "4">>, <<"1", "e", "3">>, <<"a", "b", "c">>}

\* the JSON object with the members text, number, date, checked, each left
\* out when its string is empty
Doc(text, number, date, checked) ==
    LET f == [k \in CfvalKeys |->
                CASE k = "text" -> text [] k = "number" -> number
                  [] k = "date" -> date [] k = "checked" -> checked]
    IN  JObject([k \in {x \in CfvalKeys : f[x] # <<>>} |-> JString(f[k])])

WireInputs ==
    {Doc(t, n, d, c) : t \in TextInputs, n \in NumberInputs, d \in DateInputs, c \in CheckedInputs}
        \cup {JString(<<>>), JString(S_hi), JNull, JInvalid,
              JObject("number" :> JNumber(<<"4", "2">>)),
              JObject("text" :> JString(<<>>)),
              JObject("id" :> JString(S_hi))}

Card1 == <<"c", "1">>
Field1 == <<"f", "1">>
Field2 == <<"f", "2">>

ModelTypeInputs == {<<>>, S_card, <<"b", "o", "a", "r", "d">>}
CardIDInputs == {Card1}
FieldIDInputs == {Field1, Field2}
ClientValueInputs == {GoString(S_hi), GoString(<<>>), GoInt(42), GoBool(TRUE)}
ExtraArgsInputs == {<<>>, <<("filter" :> "all")>>}

ItemInputs ==
    {CustomFieldItem(<<"i", "1">>, NewCustomFieldValue(v), <<"v", "1">>, f, c, t) :
        v \in ClientValueInputs, f \in FieldIDInputs, c \in CardIDInputs, t \in ModelTypeInputs}

\* what a holder holds before a document is decoded into it: nothing (a new
\* CustomFieldValue), or the value it was constructed with or decoded earlier
HolderInputs == {Nil, GoString(<<"o", "l", "d">>), GoInt(1)}

----------------------------------------------------------------------------
(* The state machine.  The codec keeps no state between calls: a behaviour  *)
(* of Spec is one call of MarshalJSON, which may be followed by the decoding *)
(* of its output, or one call of UnmarshalJSON, on inputs drawn by Init.    *)

NoSource == [kind |-> "no source"]
NoResult == [n |-> 0, err |-> NoErr, bytes |-> NoBytes]
NoCall == [call |-> "none"]
NoInput == [f |-> "none"]
ZeroItem == CustomFieldItem(<<>>, NewCustomFieldValue(Nil), <<>>, <<>>, <<>>, <<>>)

CodecInputs ==
    {[f |-> "MarshalJSON", x |-> x] : x \in MarshalInputs}
        \cup {[f |-> "UnmarshalJSON", b |-> b] : b \in WireInputs}

InitCodec ==
    /\ input \in CodecInputs
    /\ holder \in HolderInputs
    /\ before = holder
    /\ arg = Nil
    /\ ret = NoResult
    /\ source = NoSource

\* no client call made yet
InitClient ==
    /\ passed = NoCall
    /\ sent = 0
    /\ request = NoRequest
    /\ cret = NoErr

Init ==
    /\ op = "init"
    /\ InitCodec
    /\ item = ZeroItem
    /\ InitClient

\* NewCustomFieldValue(x).MarshalJSON()
Marshal ==
    /\ op = "init"
    /\ input.f = "MarshalJSON"
    /\ op' = "MarshalJSON"
    /\ arg' = input.x
    /\ ret' = MarshalJSON(NewCustomFieldValue(input.x))
    /\ UNCHANGED <<input, holder, before, source, clientVars>>

\* holder.UnmarshalJSON(b); src is the value b is the encoding of, if any
Decode(b, src) ==
    LET r == UnmarshalJSON(holder, b)
    IN  /\ op' = "UnmarshalJSON"
        /\ arg' = b
        /\ before' = holder
        /\ holder' = r.val
        /\ ret' = [n |-> 0, err |-> r.err, bytes |-> NoBytes]
        /\ source' = src
        /\ UNCHANGED <<input, clientVars>>

\* holder.UnmarshalJSON(b) on a document received
Unmarshal ==
    /\ op = "init"
    /\ input.f = "UnmarshalJSON"
    /\ Decode(input.b, NoSource)

\* holder.UnmarshalJSON(bytes) on the bytes MarshalJSON has just returned
UnmarshalEncoded ==
    /\ op = "MarshalJSON"
    /\ ret.err = NoErr
    /\ Decode(ret.bytes, arg)

\* the caller builds a CustomFieldItem
NewItem(cfi) ==
    /\ item' = cfi
    /\ op' = "NewItem"
    /\ UNCHANGED <<codecVars, passed, sent, request, cret>>

\* the call made, the request issued when one is sent, the error returned:
\* the call's own error, or that of the response (ok: the server answers 2xx)
Call(name, args, r, ok) ==
    /\ sent < MaxRequests
    /\ r.send \/ ok
    /\ op' = name
    /\ passed' = [item |-> item, sent |-> sent, args |-> args]
    /\ sent' = IF r.send THEN sent + 1 ELSE sent
    /\ request' = IF r.send THEN r.req ELSE request
    /\ cret' = IF ~r.send THEN r.err ELSE IF ok THEN NoErr ELSE ErrHTTP
    /\ UNCHANGED <<codecVars, item>>

\* c.SetCustomFieldByItem(item, extraArgs...): the item is passed by value
CallSetCustomFieldByItem(extraArgs, ok) ==
    Call("SetCustomFieldByItem", [cfi |-> item, extraArgs |-> extraArgs],
         SetCustomFieldByItem(item, extraArgs), ok)

\* c.SetCustomField(cardID, customFieldID, value, extraArgs...)
CallSetCustomField(cardID, customFieldID, value, extraArgs, ok) ==
    Call("SetCustomField",
         [value |-> value, cardID |-> cardID, customFieldID |-> customFieldID,
          extraArgs |-> extraArgs],
         SetCustomField(cardID, customFieldID, value, extraArgs), ok)

Next ==
    \/ Marshal
    \/ Unmarshal
    \/ UnmarshalEncoded

NextClient ==
    \/ \E cfi \in ItemInputs : NewItem(cfi)
    \/ \E e \in ExtraArgsInputs, ok \in BOOLEAN : CallSetCustomFieldByItem(e, ok)
    \/ \E c \in CardIDInputs, f \in FieldIDInputs, v \in ClientValueInputs,
          e \in ExtraArgsInputs, ok \in BOOLEAN : CallSetCustomField(c, f, v, e, ok)

\* the codec: a value is encoded, a document decoded into the holder
Spec == Init /\ [][Next]_vars

\* the client: items are built and submitted; the codec is at rest
\* the client with an item its caller has built; the codec at rest
InitAtRest ==
    /\ op = "init"
    /\ input = NoInput /\ holder = Nil /\ before = Nil
    /\ arg = Nil /\ ret = NoResult /\ source = NoSource
    /\ item \in ItemInputs
    /\ InitClient

SpecClient == InitAtRest /\ [][NextClient]_vars

----------------------------------------------------------------------------
(* What the claims speak of. *)

IsMarshal == op = "MarshalJSON"
IsUnmarshal == op = "UnmarshalJSON"

\* the claims' kinds: int and int64 are both integers
KindClass(v) ==
    CASE v.kind = "string" -> "text"
      [] v.kind \in {"int", "int64"} -> "integer"
      [] v.kind = "float64" -> "float"
      [] v.kind = "bool" -> "boolean"
      [] v.kind = "time" -> "timestamp"
      [] OTHER -> v.kind

\* the same kind and the same value
GoEq(a, b) ==
    /\ KindClass(a) = KindClass(b)
    /\ CASE KindClass(a) = "float" -> FloatEq(a.v, b.v)
         [] KindClass(a) = "timestamp" -> TimeEq(a.v, b.v)
         [] KindClass(a) \in {"text", "integer", "boolean"} -> a.v = b.v
         [] OTHER -> a = b

\* the identical Go value: the same dynamic type and the same value
Same(a, b) == a.kind = b.kind /\ a = b

\* a value of a supported primitive kind, as the round trip takes them
RoundTripSource(v) ==
    \/ v.kind = "string" /\ v.v # <<>>
    \/ v.kind \in {"int", "int64", "float64", "bool"}
    \/ v.kind = "time" /\ v.v.loc = UTC /\ v.v.ns = 0

\* a float64 is finite and has at most six fractional decimal digits; the
\* year of a timestamp has at most four digits
Printable(v) ==
    /\ v.kind = "float64" => (v.v.cls = "finite" /\ v.v.scale <= Prec)
    /\ v.kind = "time" => v.v.Y <= 9999

\* C1 as claimed: for every value v of a supported primitive kind,
\* decoding the encoding of v succeeds and leaves the holder equal to v.
C1_RoundTrip ==
    (IsUnmarshal /\ RoundTripSource(source))
        => (ret.err = NoErr /\ GoEq(holder, source))

\* C1 as amended: the round trip holds for non-empty strings, int and int64
\* (which come back as an int of the same value), booleans, UTC timestamps at
\* second precision of the years 0 to 9999, and the float64 that are finite
\* and have at most six fractional decimal digits.
C1_RoundTripSixDigits ==
    (IsUnmarshal /\ RoundTripSource(source) /\ Printable(source))
        => /\ ret.err = NoErr
           /\ GoEq(holder, source)
           /\ source.kind \in {"int", "int64"} => holder.kind = "int"

\* a float64 with six fractional digits has been encoded and decoded back
C1_Witness ==
    /\ IsUnmarshal
    /\ source.kind = "float64"
    /\ source.v.cls = "finite"
    /\ source.v.scale = Prec
    /\ ret.err = NoErr
    /\ holder.kind = "float64"
    /\ FloatEq(holder.v, source.v)

\* the cfval that json.Unmarshal reads out of the document decoded
Wire == JsonUnmarshalCfval(arg).c

\* an object has been decoded whose members json.Unmarshal accepts
DecodedObject == IsUnmarshal /\ arg.j = "object" /\ JsonUnmarshalCfval(arg).err = NoErr

Populated(c) == {k \in CfvalKeys : Field(c, k) # <<>>}

WellFormed(c) ==
    /\ c.Date # <<>> => ParseTime(c.Date).ok
    /\ c.Number # <<>> => DecodeNumber(c.Number).err = NoErr

\* the value a field stands for
ValueOf(c, k) ==
    CASE k = "text" -> GoString(c.Text)
      [] k = "date" -> GoTime(ParseTime(c.Date).v)
      [] k = "checked" -> DecodeChecked(c.Checked)
      [] k = "number" -> DecodeNumber(c.Number).val

Order == <<"text", "date", "checked", "number">>

FirstPopulated(c) ==
    Order[CHOOSE i \in 1..4 : Order[i] \in Populated(c)
                                /\ \A j \in 1..(i - 1) : Order[j] \notin Populated(c)]

LastPopulated(c) ==
    Order[CHOOSE i \in 1..4 : Order[i] \in Populated(c)
                                /\ \A j \in (i + 1)..4 : Order[j] \notin Populated(c)]

\* C2 as claimed: with any subset of the four fields populated and well
\* formed, the holder gets the value of the first populated field in the
\* order text, date, checked, number.
C2_FirstMatchWins ==
    (DecodedObject /\ Populated(Wire) # {} /\ WellFormed(Wire))
        => (ret.err = NoErr /\ Same(holder, ValueOf(Wire, FirstPopulated(Wire))))

\* C2 as amended: the holder gets the value of the last populated field in
\* the order text, date, checked, number (a later field overrides an earlier).
C2_LastMatchWins ==
    (DecodedObject /\ Populated(Wire) # {} /\ WellFormed(Wire))
        => (ret.err = NoErr /\ Same(holder, ValueOf(Wire, LastPopulated(Wire))))

\* text and number were both populated and the number has been decoded
C2_Witness ==
    /\ DecodedObject
    /\ Wire.Text = S_hi
    /\ Wire.Number = <<"4", "2">>
    /\ Same(holder, GoInt(42))

\* C3: the empty string encodes to the bare JSON string "", and decoding
\* that document into a new holder succeeds and leaves it unset.
C3_EmptyString ==
    /\ (IsMarshal /\ Same(arg, GoString(<<>>)))
            => (ret.err = NoErr /\ ret.bytes = JString(<<>>))
    /\ (IsUnmarshal /\ arg = JString(<<>>) /\ Same(before, Nil))
            => (ret.err = NoErr /\ Same(holder, Nil))

\* the string has exactly the shape YYYY-MM-DDTHH:MM:SSZ
MatchesLayout(s) ==
    /\ Len(s) = 20
    /\ \A i \in {1, 2, 3, 4, 6, 7, 9, 10, 12, 13, 15, 16, 18, 19} : IsDigit(s[i])
    /\ s[5] = "-" /\ s[8] = "-" /\ s[11] = "T"
    /\ s[14] = ":" /\ s[17] = ":" /\ s[20] = "Z"

\* the decoding ended with the time error and with what the document gives
\* without its checked and number members
AbortedAtDate ==
    /\ ret.err = ErrTimeParse
    /\ Same(holder, UnmarshalJSON(before, Doc(Wire.Text, <<>>, Wire.Date, <<>>)).val)
    /\ UnmarshalJSON(before, Doc(Wire.Text, <<>>, Wire.Date, <<>>)).err = ErrTimeParse

\* C5 as claimed: a date that does not match YYYY-MM-DDTHH:MM:SSZ makes
\* UnmarshalJSON return the parse error, checked and number unexamined.
C5_NonMatchingDateFails ==
    (DecodedObject /\ Wire.Date # <<>> /\ ~MatchesLayout(Wire.Date)) => AbortedAtDate

\* C5 as amended: a date that time.Parse rejects under the layout makes
\* UnmarshalJSON return the parse error, checked and number unexamined.
C5_RejectedDateAborts ==
    (DecodedObject /\ Wire.Date # <<>> /\ ~ParseTime(Wire.Date).ok) => AbortedAtDate

\* a document with a bad date and a bad number ended with the time error
C5_Witness ==
    /\ DecodedObject
    /\ Wire.Date = <<"n", "o", "t", "-", "a", "-", "d", "a", "t", "e">>
    /\ Wire.Number = <<"a", "b", "c">>
    /\ Wire.Checked = S_true
    /\ ret.err = ErrTimeParse

\* C6: when UnmarshalJSON returns an error the holder holds what it held
\* before the call; when MarshalJSON returns an error it returns no bytes.
C6_NoPartialResults ==
    /\ (IsUnmarshal /\ ret.err # NoErr) => Same(holder, before)
    /\ (IsMarshal /\ ret.err # NoErr) => ret.bytes = NoBytes

OnlyNumber(c) == Populated(c) = {"number"}

\* C7: with only number populated the attempts are Atoi, ParseFloat 64,
\* ParseFloat 32, ParseInt 64, the first success wins: "42" gives the int 42,
\* "3.14" the float64 3.14, and "abc" the error that names "abc".
C7_NumberAttempts ==
    (DecodedObject /\ OnlyNumber(Wire)) =>
        LET s == Wire.Number
        IN  /\ Atoi(s).ok => (ret.err = NoErr /\ Same(holder, GoInt(Atoi(s).v)))
            /\ (~Atoi(s).ok /\ ParseFloat(s, 64).ok)
                    => (ret.err = NoErr /\ Same(holder, GoFloat64(ParseFloat(s, 64).v)))
            /\ (~Atoi(s).ok /\ ~ParseFloat(s, 64).ok /\ ~ParseFloat(s, 32).ok
                    /\ ~ParseInt(s, 10, 64).ok)
                    => ret.err = ErrNumber(s)
            /\ s = <<"4", "2">> => Same(holder, GoInt(42))
            /\ s = <<"3", ".", "1", "4">> => Same(holder, GoFloat64(Finite(314, 2)))
            /\ s = <<"a", "b", "c">> => ret.err = ErrNumber(<<"a", "b", "c">>)

\* the number 3.14 alone has been decoded to a float64
C7_Witness ==
    /\ DecodedObject
    /\ OnlyNumber(Wire)
    /\ Wire.Number = <<"3", ".", "1", "4">>
    /\ ret.err = NoErr
    /\ Same(holder, GoFloat64(Finite(314, 2)))

\* the field a supported kind is written to
KeyOf(v) ==
    CASE v.kind = "string" -> "text"
      [] v.kind \in {"int", "int64", "float64"} -> "number"
      [] v.kind = "bool" -> "checked"
      [] v.kind = "time" -> "date"

PrimitiveKinds == {"string", "int", "int64", "float64", "bool", "time"}

\* the bytes are an object with the one member k, a non-empty string
OneField(b, k) == b.j = "object" /\ DOMAIN b.m = {k} /\ b.m[k].j = "string" /\ b.m[k].s # <<>>

Unsupported(v) == v.kind \notin PrimitiveKinds \cup {"cfval", "valuer"}

\* C8 as claimed: a value of no supported type fails with the unsupported
\* type error and no output; every value of a supported kind is encoded to
\* a wire value with exactly the one field of its kind populated.
C8_OneFieldPerKind ==
    IsMarshal =>
        /\ Unsupported(arg) => (ret.err = ErrUnsupportedType /\ ret.bytes = NoBytes)
        /\ arg.kind \in PrimitiveKinds => (ret.err = NoErr /\ OneField(ret.bytes, KeyOf(arg)))

\* C8 as amended: the same, but the empty string, a value of a supported
\* kind, is encoded to the bare JSON string "" with no field at all.
C8_OneFieldUnlessEmpty ==
    IsMarshal =>
        /\ Unsupported(arg) => (ret.err = ErrUnsupportedType /\ ret.bytes = NoBytes)
        /\ (arg.kind \in PrimitiveKinds /\ ~Same(arg, GoString(<<>>)))
                => (ret.err = NoErr /\ OneField(ret.bytes, KeyOf(arg)))
        /\ Same(arg, GoString(<<>>)) => (ret.err = NoErr /\ ret.bytes = JString(<<>>))

\* an int64 has been encoded to an object whose one member is number
C8_Witness ==
    /\ IsMarshal
    /\ Same(arg, GoInt64(42))
    /\ ret.bytes = JObject("number" :> JString(<<"4", "2">>))

\* the number of driver.Valuer layers that resolve, and what is under them
RECURSIVE Depth(_)
Depth(v) == IF v.kind = "valuer" /\ ~v.fails THEN 1 + Depth(v.v) ELSE 0

RECURSIVE Under(_)
Under(v) == IF v.kind = "valuer" /\ ~v.fails THEN Under(v.v) ELSE v

\* C10: a value under n resolvable sources is resolved n times and encoded
\* as the value itself is (its bytes or its unsupported type error); when a
\* resolution fails the call stops there with that error and no output.
C10_ResolvesChain ==
    (IsMarshal /\ arg.kind = "valuer") =>
        IF Under(arg).kind = "valuer"
        THEN ret.err = ErrValuer /\ ret.bytes = NoBytes /\ ret.n = Depth(arg) + 1
        ELSE /\ ret.n = Depth(arg)
             /\ ret.err = EncodeSwitch(Under(arg)).err
             /\ ret.bytes = EncodeSwitch(Under(arg)).bytes

\* a string under two resolvable sources has been encoded
C10_Witness ==
    /\ IsMarshal
    /\ arg.kind = "valuer"
    /\ Depth(arg) = 2
    /\ Same(Under(arg), GoString(S_hi))
    /\ ret.n = 2
    /\ ret.bytes = JObject("text" :> JString(S_hi))

IsByItem == op = "SetCustomFieldByItem"

\* the value of the item submitted can be encoded
Encodable(cfi) == MarshalJSON(cfi.Value).err = NoErr

\* C4 as claimed: an item whose model type is anything other than card is
\* refused with the unsupported model type error and no request is issued.
C4_RejectsAllButCard ==
    (IsByItem /\ passed.args.cfi.IDModelType # S_card)
        => /\ cret = ErrModelType(passed.args.cfi.IDModelType)
           /\ sent = passed.sent

\* C4 as amended: an item whose model type is not empty and not card is
\* refused with the unsupported model type error and no request is issued.
C4_RejectsNonEmptyNonCard ==
    (IsByItem /\ passed.args.cfi.IDModelType \notin {<<>>, S_card})
        => /\ cret = ErrModelType(passed.args.cfi.IDModelType)
           /\ sent = passed.sent

\* an item of model type board has been refused after a request was issued
C4_Witness ==
    /\ IsByItem
    /\ passed.args.cfi.IDModelType = <<"b", "o", "a", "r", "d">>
    /\ cret.e = "unsupported model type"
    /\ sent = passed.sent
    /\ sent > 0

\* C9: an item of model type empty or card with an encodable value makes
\* SetCustomFieldByItem issue exactly one PUT to
\* cards/{IDModel}/customField/{IDCustomField}/item whose body holds the
\* value alone, the request SetCustomField issues for the same ids and raw
\* value; and neither call changes the caller's item.
C9_ByItemRequest ==
    /\ (IsByItem /\ passed.args.cfi.IDModelType \in {<<>>, S_card}
            /\ Encodable(passed.args.cfi)) =>
        LET cfi == passed.args.cfi
        IN  /\ cret \in {NoErr, ErrHTTP}
            /\ sent = passed.sent + 1
            /\ request.method = "PUT"
            /\ request.path = <<"c", "a", "r", "d", "s", "/">> \o cfi.IDModel
                    \o <<"/", "c", "u", "s", "t", "o", "m", "F", "i", "e", "l", "d", "/">>
                    \o cfi.IDCustomField \o <<"/", "i", "t", "e", "m">>
            /\ request.body = JObject("value" :> MarshalJSON(cfi.Value).bytes)
            /\ request = SetCustomField(cfi.IDModel, cfi.IDCustomField, cfi.Value.val,
                                        passed.args.extraArgs).req
    /\ op \in {"SetCustomFieldByItem", "SetCustomField"} => item = passed.item

\* an item without a model type has been submitted and its PUT issued
C9_Witness ==
    /\ IsByItem
    /\ passed.args.cfi.IDModelType = <<>>
    /\ passed.args.cfi.IDCustomField = Field2
    /\ sent = passed.sent + 1
    /\ cret = NoErr
    /\ request.body = JObject("value" :> JObject("text" :> JString(S_hi)))

====
